---- MODULE Spec2Model ----
(***************************************************************************)
(* Model of the two configuration batch scripts of QuantLabEngine:         *)
(*   validate-configs.py       (schema validator)                          *)
(*   simulate-provisioning.py  (dry-run provisioning simulator)            *)
(*                                                                         *)
(* JSON objects are functions whose DOMAIN is the set of keys present, so  *)
(* Python's `k in d` is `k \in DOMAIN d` and `d.get(k, x)` is Get(d,k,x).  *)
(* JSON lists are sequences, indexed from 1 here and from 0 in Python.     *)
(* Strings built by f-strings are built with \o and ToString.              *)
(***************************************************************************)
EXTENDS Integers, Sequences, FiniteSets, TLC

VARIABLES
    config_docs,              \* disk: content of each configuration file
    schema_file,              \* disk: content of docs/account-schema.md
    validation_results_json,  \* disk: validation-results.json
    validation_errors_txt,    \* disk: validation-errors.txt
    simulation_results_json,  \* disk: simulation-results.json
    script,                   \* which of the two scripts the process runs
    pc,                       \* position of the running process
    run,                      \* number of process runs started so far
    edited,                   \* a configuration file was rewritten since the last run
    rerun,                    \* this run started on the files the previous run left unchanged
    idx,                      \* number of loop iterations completed in this run
    schema,                   \* validate-configs.py: parsed schema
    validation_results,       \* validate-configs.py: list of result entries
    all_valid,                \* validate-configs.py: flag
    simulation_results,       \* simulate-provisioning.py: list of result entries
    exit_code,                \* exit status of the last finished process
    files_read,               \* configuration files read by this run
    written,                  \* artifacts written by this run
    mode,                     \* "batch", or "call" when one function is applied to one input
    config_data,              \* argument of the function under call
    outcome                   \* what the call produced

vars == <<config_docs, schema_file, validation_results_json, validation_errors_txt,
          simulation_results_json, script, pc, run, edited, rerun, idx, schema,
          validation_results, all_valid, simulation_results, exit_code,
          files_read, written, mode, config_data, outcome>>

(***************************************************************************)
(* Bounds of the model.                                                    *)
(***************************************************************************)
\* The source lists eight configuration files and treats each alike; the
\* model runs the same loops over a shorter list.
NumFiles == 3
MaxRuns == 2
MaxChallenges == 2
MaxPayouts == 2

(***************************************************************************)
(* Python dictionaries, lists and exceptions.                              *)
(***************************************************************************)
Has(d, k) == k \in DOMAIN d

Get(d, k, default) == IF k \in DOMAIN d THEN d[k] ELSE default

Restrict(d, K) == [k \in K |-> d[k]]

Range(s) == {s[i] : i \in 1..Len(s)}

EmptyDict == <<>>

\* JSON scalars of the field baseCapital: a number, or a string such as "25000".
Num(n) == <<"number", n>>

Text == <<"string", 0>>

IsNum(v) == v[1] = "number"

\* A call either returns a value or raises an exception carrying str(e).
Returned(v) == [raised |-> FALSE, value |-> v]

Raised(kind, msg) == [raised |-> TRUE, kind |-> kind, msg |-> msg]

RECURSIVE Concat(_)
Concat(ss) == IF ss = <<>> THEN <<>> ELSE Head(ss) \o Concat(Tail(ss))

RECURSIVE SumSeq(_)
SumSeq(s) == IF s = <<>> THEN 0 ELSE Head(s) + SumSeq(Tail(s))

\* Sequences over S of length 0..n.
SeqUpTo(S, n) == UNION {[1..k -> S] : k \in 0..n}

(***************************************************************************)
(* validate-configs.py: validate_config                                    *)
(***************************************************************************)
TypeErrorLt == "'<' not supported between instances of 'str' and 'int'"

\* Mutant of CheckRequired: the loop stops at the first missing field.
CheckRequiredFirstOnly(cfg, sch) ==
    LET required_fields == Get(sch, "required", <<>>)
        missing == {i \in 1..Len(required_fields) : ~Has(cfg, required_fields[i])}
    IN  IF missing = {}
        THEN <<>>
        ELSE <<"Missing required field: "
                 \o required_fields[CHOOSE i \in missing : \A j \in missing : i <= j]>>

\* Rule 1: one error per required field absent from the document.
CheckRequired(cfg, sch) ==
    LET required_fields == Get(sch, "required", <<>>)
    IN  Concat([i \in 1..Len(required_fields) |->
                  IF ~Has(cfg, required_fields[i])
                  THEN <<"Missing required field: " \o required_fields[i]>>
                  ELSE <<>>])

\* Rule 2: variant, when present, is a member of the schema's enum.
CheckVariant(cfg, sch) ==
    IF Has(cfg, "variant")
    THEN LET allowed_variants == sch["properties"]["variant"]["enum"]
         IN  IF cfg["variant"] \notin Range(allowed_variants)
             THEN <<"Invalid variant: " \o cfg["variant"]>>
             ELSE <<>>
    ELSE <<>>

\* Rule 3: `config_data["baseCapital"] < min_capital` raises TypeError when
\* the value is a string.
BaseCapitalRaises(cfg) == Has(cfg, "baseCapital") /\ ~IsNum(cfg["baseCapital"])

\* Mutant of CheckBaseCapital: the comparison is <= instead of <.
CheckBaseCapitalInclusive(cfg, sch) ==
    IF Has(cfg, "baseCapital")
    THEN LET min_capital == sch["properties"]["baseCapital"]["minimum"]
         IN  IF cfg["baseCapital"][2] <= min_capital
             THEN <<"baseCapital " \o ToString(cfg["baseCapital"][2])
                      \o " below minimum " \o ToString(min_capital)>>
             ELSE <<>>
    ELSE <<>>

CheckBaseCapital(cfg, sch) ==
    IF Has(cfg, "baseCapital")
    THEN LET min_capital == sch["properties"]["baseCapital"]["minimum"]
         IN  IF cfg["baseCapital"][2] < min_capital
             THEN <<"baseCapital " \o ToString(cfg["baseCapital"][2])
                      \o " below minimum " \o ToString(min_capital)>>
             ELSE <<>>
    ELSE <<>>

\* Rule 4: each challenge has id, name and rules; Python's index is i - 1.
ChallengeErrors(challenge, i) ==
    (IF ~Has(challenge, "id")
     THEN <<"challengeDefinitions[" \o ToString(i - 1) \o "] missing 'id'">> ELSE <<>>)
    \o (IF ~Has(challenge, "name")
        THEN <<"challengeDefinitions[" \o ToString(i - 1) \o "] missing 'name'">> ELSE <<>>)
    \o (IF ~Has(challenge, "rules")
        THEN <<"challengeDefinitions[" \o ToString(i - 1) \o "] missing 'rules'">> ELSE <<>>)

CheckChallengeDefinitions(cfg) ==
    IF Has(cfg, "challengeDefinitions")
    THEN LET cds == cfg["challengeDefinitions"]
         IN  Concat([i \in 1..Len(cds) |-> ChallengeErrors(cds[i], i)])
    ELSE <<>>

\* Rule 5: each staged payout has milestone and a payoutPercent in [0, 100].
PayoutErrors(payout, i) ==
    (IF ~Has(payout, "milestone")
     THEN <<"payoutRules.stagedPayouts[" \o ToString(i - 1) \o "] missing 'milestone'">>
     ELSE <<>>)
    \o (IF ~Has(payout, "payoutPercent")
        THEN <<"payoutRules.stagedPayouts[" \o ToString(i - 1)
                 \o "] missing 'payoutPercent'">>
        ELSE IF ~(0 <= payout["payoutPercent"] /\ payout["payoutPercent"] <= 100)
             THEN <<"payoutRules.stagedPayouts[" \o ToString(i - 1)
                      \o "] payoutPercent out of range [0, 100]">>
             ELSE <<>>)

CheckPayoutRules(cfg) ==
    IF Has(cfg, "payoutRules")
    THEN LET payout_rules == cfg["payoutRules"]
         IN  IF Has(payout_rules, "stagedPayouts")
             THEN LET sp == payout_rules["stagedPayouts"]
                  IN  Concat([i \in 1..Len(sp) |-> PayoutErrors(sp[i], i)])
             ELSE <<>>
    ELSE <<>>

\* The rules run in order on one accumulating list; an exception raised by
\* rule 3 leaves the function without a return value.
validate_config(cfg, sch) ==
    IF BaseCapitalRaises(cfg)
    THEN Raised("TypeError", TypeErrorLt)
    ELSE Returned(CheckRequired(cfg, sch)
                  \o CheckVariant(cfg, sch)
                  \o CheckBaseCapital(cfg, sch)
                  \o CheckChallengeDefinitions(cfg)
                  \o CheckPayoutRules(cfg))

(***************************************************************************)
(* simulate-provisioning.py: simulate_config_provisioning                  *)
(***************************************************************************)
TypeErrorGe == "'>=' not supported between instances of 'str' and 'int'"

Pad3(k) ==
    IF k < 10 THEN "00" \o ToString(k)
    ELSE IF k < 100 THEN "0" \o ToString(k) ELSE ToString(k)

\* format(n, ","): decimal digits in groups of three.
RECURSIVE FmtComma(_)
FmtComma(n) ==
    IF n < 0 THEN "-" \o FmtComma(-n)
    ELSE IF n < 1000 THEN ToString(n)
    ELSE FmtComma(n \div 1000) \o "," \o Pad3(n % 1000)

CheckEntry(name, status, message) ==
    [check |-> name, status |-> status, message |-> message]

\* `config_data.get("id")` is None when the key is absent.
NewResult(cfg, config_name) ==
    [config_id |-> Get(cfg, "id", "None"), config_name |-> config_name,
     status |-> "PASS", checks |-> <<>>, warnings |-> <<>>, errors |-> <<>>]

SimBaseCapital(cfg) == Get(cfg, "baseCapital", Num(0))

SimChallengeDefs(cfg) == Get(cfg, "challengeDefinitions", <<>>)

SimStagedPayouts(cfg) == Get(Get(cfg, "payoutRules", EmptyDict), "stagedPayouts", <<>>)

\* Mutant of CapitalCheck: the floor is compared with > instead of >=.
CapitalCheckExclusive(result, cfg) ==
    LET base_capital == SimBaseCapital(cfg)[2]
    IN  IF base_capital > 1000
        THEN [result EXCEPT !.checks = Append(@, CheckEntry("BaseCapitalValidation", "PASS",
                 "Base capital $" \o FmtComma(base_capital) \o " is valid"))]
        ELSE [result EXCEPT !.checks = Append(@, CheckEntry("BaseCapitalValidation", "FAIL",
                 "Base capital $" \o FmtComma(base_capital) \o " below minimum")),
                            !.status = "FAIL",
                            !.errors = Append(@, "Insufficient base capital")]

\* Check 1: base capital floor.
CapitalCheck(result, cfg) ==
    LET base_capital == SimBaseCapital(cfg)[2]
    IN  IF base_capital >= 1000
        THEN [result EXCEPT !.checks = Append(@, CheckEntry("BaseCapitalValidation", "PASS",
                 "Base capital $" \o FmtComma(base_capital) \o " is valid"))]
        ELSE [result EXCEPT !.checks = Append(@, CheckEntry("BaseCapitalValidation", "FAIL",
                 "Base capital $" \o FmtComma(base_capital) \o " below minimum")),
                            !.status = "FAIL",
                            !.errors = Append(@, "Insufficient base capital")]

\* Mutant of ChallengeCheck: the failing branch appends no error string.
ChallengeCheckSilent(result, cfg) ==
    LET challenge_defs == SimChallengeDefs(cfg)
    IN  IF challenge_defs # <<>>
        THEN [result EXCEPT !.checks = Append(@, CheckEntry("ChallengeDefinitionsPresent",
                 "PASS", ToString(Len(challenge_defs)) \o " challenge(s) defined"))]
        ELSE [result EXCEPT !.checks = Append(@, CheckEntry("ChallengeDefinitionsPresent",
                 "FAIL", "No challenge definitions found")),
                            !.status = "FAIL"]

\* Check 2: challenge definitions present.
ChallengeCheck(result, cfg) ==
    LET challenge_defs == SimChallengeDefs(cfg)
    IN  IF challenge_defs # <<>>
        THEN [result EXCEPT !.checks = Append(@, CheckEntry("ChallengeDefinitionsPresent",
                 "PASS", ToString(Len(challenge_defs)) \o " challenge(s) defined"))]
        ELSE [result EXCEPT !.checks = Append(@, CheckEntry("ChallengeDefinitionsPresent",
                 "FAIL", "No challenge definitions found")),
                            !.status = "FAIL",
                            !.errors = Append(@, "Missing challenge definitions")]

\* Mutant of PayoutCheck: a payout total other than 100 fails the document.
PayoutCheckDemotes(result, cfg) ==
    LET staged_payouts == SimStagedPayouts(cfg)
        total == SumSeq([i \in 1..Len(staged_payouts) |->
                            Get(staged_payouts[i], "payoutPercent", 0)])
    IN  IF staged_payouts # <<>> /\ total # 100
        THEN [result EXCEPT !.checks = Append(@, CheckEntry("PayoutPercentageSum",
                 "WARNING", "Payout percentages sum to " \o ToString(total)
                            \o "% (expected 100%)")),
                            !.status = "FAIL",
                            !.warnings = Append(@, "Unusual payout total: "
                                           \o ToString(total) \o "%")]
        ELSE IF staged_payouts # <<>>
        THEN [result EXCEPT !.checks = Append(@, CheckEntry("PayoutPercentageSum",
                 "PASS", "Payout percentages sum to 100%"))]
        ELSE result

\* Check 3: staged payout percentages sum to 100.
TotalPayout(staged_payouts) ==
    SumSeq([i \in 1..Len(staged_payouts) |-> Get(staged_payouts[i], "payoutPercent", 0)])

\* Mutant of PayoutCheck: a total of 100 or more passes.
PayoutCheckAtLeast(result, cfg) ==
    LET staged_payouts == SimStagedPayouts(cfg)
        total_payout == TotalPayout(staged_payouts)
    IN  IF staged_payouts # <<>>
        THEN IF total_payout >= 100
             THEN [result EXCEPT !.checks = Append(@, CheckEntry("PayoutPercentageSum",
                      "PASS", "Payout percentages sum to 100%"))]
             ELSE [result EXCEPT !.checks = Append(@, CheckEntry("PayoutPercentageSum",
                      "WARNING", "Payout percentages sum to " \o ToString(total_payout)
                                 \o "% (expected 100%)")),
                                 !.warnings = Append(@, "Unusual payout total: "
                                                \o ToString(total_payout) \o "%")]
        ELSE result

PayoutCheck(result, cfg) ==
    LET staged_payouts == SimStagedPayouts(cfg)
        total_payout == TotalPayout(staged_payouts)
    IN  IF staged_payouts # <<>>
        THEN IF total_payout = 100
             THEN [result EXCEPT !.checks = Append(@, CheckEntry("PayoutPercentageSum",
                      "PASS", "Payout percentages sum to 100%"))]
             ELSE [result EXCEPT !.checks = Append(@, CheckEntry("PayoutPercentageSum",
                      "WARNING", "Payout percentages sum to " \o ToString(total_payout)
                                 \o "% (expected 100%)")),
                                 !.warnings = Append(@, "Unusual payout total: "
                                                \o ToString(total_payout) \o "%")]
        ELSE result

\* `challenge_defs[0].get("durationDays") == 0`: False when the key is absent.
DurationIsZero(challenge) ==
    Has(challenge, "durationDays") /\ challenge["durationDays"] = 0

\* Mutant of VariantCheck: only the first challenge's duration is looked at,
\* not the number of challenges.
VariantCheckFirstOnly(result, cfg) ==
    LET challenge_defs == SimChallengeDefs(cfg)
        variant == Get(cfg, "variant", "")
    IN  IF variant = "straight-to-funded"
        THEN IF Len(challenge_defs) >= 1 /\ DurationIsZero(challenge_defs[1])
             THEN [result EXCEPT !.checks = Append(@, CheckEntry("StraightToFundedStructure",
                      "PASS", "Straight-to-funded structure is correct"))]
             ELSE [result EXCEPT !.warnings =
                      Append(@, "Straight-to-funded structure may be incorrect")]
        ELSE IF variant = "evaluation"
        THEN IF Len(challenge_defs) >= 2
             THEN [result EXCEPT !.checks = Append(@, CheckEntry("EvaluationStructure",
                      "PASS", "Evaluation has " \o ToString(Len(challenge_defs)) \o " stages"))]
             ELSE [result EXCEPT !.warnings = Append(@, "Evaluation typically has 2+ stages")]
        ELSE result

\* Check 4: variant-specific structure.
VariantCheck(result, cfg) ==
    LET challenge_defs == SimChallengeDefs(cfg)
        variant == Get(cfg, "variant", "")
    IN  IF variant = "straight-to-funded"
        THEN IF Len(challenge_defs) = 1 /\ DurationIsZero(challenge_defs[1])
             THEN [result EXCEPT !.checks = Append(@, CheckEntry("StraightToFundedStructure",
                      "PASS", "Straight-to-funded structure is correct"))]
             ELSE [result EXCEPT !.warnings =
                      Append(@, "Straight-to-funded structure may be incorrect")]
        ELSE IF variant = "evaluation"
        THEN IF Len(challenge_defs) >= 2
             THEN [result EXCEPT !.checks = Append(@, CheckEntry("EvaluationStructure",
                      "PASS", "Evaluation has " \o ToString(Len(challenge_defs)) \o " stages"))]
             ELSE [result EXCEPT !.warnings = Append(@, "Evaluation typically has 2+ stages")]
        ELSE result

\* Check 5: one warning per challenge whose daily loss limit exceeds its max drawdown.
RiskWarnings(challenge) ==
    LET rules == Get(challenge, "rules", EmptyDict)
        max_dd == Get(rules, "maxDrawdown", 0)
        daily_loss == Get(rules, "dailyLossLimit", 0)
    IN  IF daily_loss > max_dd
        THEN <<"Challenge '" \o Get(challenge, "name", "None")
                 \o "': Daily loss limit exceeds max drawdown">>
        ELSE <<>>

RiskCheck(result, cfg) ==
    LET challenge_defs == SimChallengeDefs(cfg)
    IN  [result EXCEPT !.warnings =
            @ \o Concat([i \in 1..Len(challenge_defs) |-> RiskWarnings(challenge_defs[i])])]

\* `base_capital >= 1000` raises TypeError when baseCapital is a string.
simulate_config_provisioning(cfg, config_name) ==
    IF ~IsNum(SimBaseCapital(cfg))
    THEN Raised("TypeError", TypeErrorGe)
    ELSE Returned(RiskCheck(VariantCheck(PayoutCheck(ChallengeCheck(
             CapitalCheck(NewResult(cfg, config_name), cfg), cfg), cfg), cfg), cfg))

(***************************************************************************)
(* Inputs: schemas and configuration documents.                            *)
(***************************************************************************)
\* An optional key: absent, or present with a value of S.
Opt(k, S) == {EmptyDict} \cup {[x \in {k} |-> v] : v \in S}

SchemaProperties(minimum) ==
    [variant |-> [enum |-> <<"evaluation", "straight-to-funded">>],
     baseCapital |-> [minimum |-> minimum]]

AllFields == <<"id", "variant", "baseCapital", "challengeDefinitions", "payoutRules">>

\* Well-formed draft-07 schemas: `required`, when given, lists each name once.
DefaultSchema == [required |-> AllFields, properties |-> SchemaProperties(1000)]

Schemas ==
    {DefaultSchema,
     [required |-> <<"baseCapital", "id">>, properties |-> SchemaProperties(25000)],
     [properties |-> SchemaProperties(1000)]}

SafeRules == [maxDrawdown |-> -1000, dailyLossLimit |-> -2000]

RiskyRules == [maxDrawdown |-> -2000, dailyLossLimit |-> -1000]

FullChallenge ==
    [id |-> "phase-1", name |-> "Phase 1", durationDays |-> 30, rules |-> SafeRules]

FullPayout == [milestone |-> "first", payoutPercent |-> 50]

\* Documents that exercise validate_config.
ValidateChallenges ==
    {FullChallenge,
     Restrict(FullChallenge, {"name", "durationDays", "rules"}),
     Restrict(FullChallenge, {"id", "durationDays"}),
     EmptyDict}

ValidatePayouts ==
    {FullPayout, [payoutPercent |-> 150], [milestone |-> "first"]}

DocsOver(ids, variants, capitals, challenges, payouts) ==
    {a @@ b @@ c @@ d @@ e :
        a \in ids,
        b \in Opt("variant", variants),
        c \in Opt("baseCapital", capitals),
        d \in Opt("challengeDefinitions", SeqUpTo(challenges, MaxChallenges)),
        e \in Opt("payoutRules",
                  {EmptyDict} \cup {[stagedPayouts |-> sp] : sp \in SeqUpTo(payouts, MaxPayouts)})}

ValidateDocs ==
    DocsOver(Opt("id", {"25k-eval-v1"}), {"evaluation", "instant"},
             {Num(999), Num(1000), Num(25000), Text},
             ValidateChallenges, ValidatePayouts)

\* Documents that exercise simulate_config_provisioning.
SimulateChallenges ==
    {[FullChallenge EXCEPT !.durationDays = 0],
     [FullChallenge EXCEPT !.rules = RiskyRules],
     Restrict(FullChallenge, {"id", "name", "rules"}),
     Restrict([FullChallenge EXCEPT !.durationDays = 0], {"id", "durationDays"})}

SimulatePayouts ==
    {[milestone |-> "first"]}
    \cup {[milestone |-> "first", payoutPercent |-> p] : p \in {1, 99, 100}}

SimulateDocs ==
    DocsOver({[id |-> "25k-eval-v1"]}, {"evaluation", "straight-to-funded"},
             {Num(500), Num(999), Num(1000), Text},
             SimulateChallenges, SimulatePayouts)

(***************************************************************************)
(* State shared by the specifications.                                     *)
(***************************************************************************)
Pending == [pending |-> TRUE]

NoSchema == [missing |-> TRUE]

NoFile == [present |-> FALSE]

DiskInit ==
    /\ validation_results_json = NoFile
    /\ validation_errors_txt = NoFile
    /\ simulation_results_json = NoFile

ProcessInit ==
    /\ pc = "idle"
    /\ run = 0
    /\ edited = FALSE
    /\ rerun = FALSE
    /\ idx = 0
    /\ validation_results = <<>>
    /\ all_valid = TRUE
    /\ simulation_results = <<>>
    /\ exit_code = -1
    /\ files_read = {}
    /\ written = {}

diskVars == <<config_docs, schema_file, validation_results_json, validation_errors_txt,
              simulation_results_json>>

processVars == <<script, pc, run, edited, rerun, idx, validation_results, all_valid,
                 simulation_results, exit_code, files_read, written>>

(***************************************************************************)
(* One function applied to one input.                                      *)
(***************************************************************************)
CallInit(name, docs, schemas) ==
    /\ mode = "call"
    /\ script = name
    /\ config_data \in docs
    /\ schema \in schemas
    /\ outcome = Pending
    /\ config_docs = <<>>
    /\ schema_file = NoSchema
    /\ DiskInit
    /\ ProcessInit

CallValidate ==
    /\ mode = "call"
    /\ script = "validate-configs.py"
    /\ outcome = Pending
    /\ outcome' = validate_config(config_data, schema)
    /\ UNCHANGED <<diskVars, processVars, mode, config_data, schema>>

CallSimulate ==
    /\ mode = "call"
    /\ script = "simulate-provisioning.py"
    /\ outcome = Pending
    /\ outcome' = simulate_config_provisioning(config_data, "25k-eval-v1.json")
    /\ UNCHANGED <<diskVars, processVars, mode, config_data, schema>>

ValidateInit == CallInit("validate-configs.py", ValidateDocs, Schemas)

ValidateSpec == ValidateInit /\ [][CallValidate]_vars

SimulateInit == CallInit("simulate-provisioning.py", SimulateDocs, {NoSchema})

SimulateSpec == SimulateInit /\ [][CallSimulate]_vars

(***************************************************************************)
(* The batch scripts.                                                      *)
(***************************************************************************)
AllConfigFiles ==
    <<"25k-eval-v1.json", "25k-straight-v1.json", "50k-eval-v1.json",
      "50k-straight-v1.json", "100k-eval-v1.json", "100k-straight-v1.json",
      "150k-eval-v1.json", "150k-straight-v1.json">>

config_files == SubSeq(AllConfigFiles, 1, NumFiles)

\* What a configuration file can hold: nothing readable, text that is not
\* JSON, or a JSON document.
Unreadable == [kind |-> "oserror", msg |-> "[Errno 2] No such file or directory"]

BadJson == [kind |-> "badjson", msg |-> "Expecting value: line 1 column 1 (char 0)"]

Json(doc) == [kind |-> "json", data |-> doc]

GoodDoc ==
    [id |-> "25k-eval-v1", variant |-> "evaluation", baseCapital |-> Num(25000),
     challengeDefinitions |-> <<FullChallenge, FullChallenge>>,
     payoutRules |-> [stagedPayouts |-> <<FullPayout, FullPayout>>]]

BadDoc ==
    [variant |-> "instant", baseCapital |-> Num(500), challengeDefinitions |-> <<>>]

IllTypedDoc ==
    [variant |-> "instant", baseCapital |-> Text, challengeDefinitions |-> <<EmptyDict>>]

FileContents == {Unreadable, BadJson, Json(GoodDoc), Json(BadDoc), Json(IllTypedDoc)}

\* json.loads(config_path.read_text(encoding='utf-8'))
LoadJson(content) ==
    IF content.kind = "oserror" THEN Raised("OSError", content.msg)
    ELSE IF content.kind = "badjson" THEN Raised("JSONDecodeError", content.msg)
    ELSE Returned(content.data)

Count(results, status) == Cardinality({i \in 1..Len(results) : results[i].status = status})

RECURSIVE JoinStr(_)
JoinStr(ss) == IF ss = <<>> THEN "" ELSE Head(ss) \o JoinStr(Tail(ss))

\* ---- validate-configs.py ----
ValidationEntry(config_name, status, errors) ==
    [file |-> config_name, status |-> status, errors |-> errors]

\* Mutant of ValidateOne: the JSON handler drops the parser's message and
\* forgets to clear all_valid.
ValidateOneLax(content, config_name, sch, valid) ==
    LET loaded == LoadJson(content)
    IN  IF loaded.raised
        THEN IF loaded.kind = "JSONDecodeError"
             THEN [entry |-> ValidationEntry(config_name, "FAILED", <<"JSON parse error">>),
                   all_valid |-> valid]
             ELSE [entry |-> ValidationEntry(config_name, "FAILED",
                                 <<"Unexpected error: " \o loaded.msg>>),
                   all_valid |-> FALSE]
        ELSE LET res == validate_config(loaded.value, sch)
             IN  IF res.raised
                 THEN [entry |-> ValidationEntry(config_name, "FAILED",
                                     <<"Unexpected error: " \o res.msg>>),
                       all_valid |-> FALSE]
                 ELSE IF res.value # <<>>
                 THEN [entry |-> ValidationEntry(config_name, "FAILED", res.value),
                       all_valid |-> FALSE]
                 ELSE [entry |-> ValidationEntry(config_name, "PASSED", <<>>),
                       all_valid |-> valid]

\* One iteration of the validation loop over the file's content: the entry
\* appended to validation_results and the value of all_valid afterwards.
ValidateOne(content, config_name, sch, valid) ==
    LET loaded == LoadJson(content)
    IN  IF loaded.raised
        THEN IF loaded.kind = "JSONDecodeError"
             THEN [entry |-> ValidationEntry(config_name, "FAILED",
                                 <<"JSON parse error: " \o loaded.msg>>),
                   all_valid |-> FALSE]
             ELSE [entry |-> ValidationEntry(config_name, "FAILED",
                                 <<"Unexpected error: " \o loaded.msg>>),
                   all_valid |-> FALSE]
        ELSE LET res == validate_config(loaded.value, sch)
             IN  IF res.raised
                 THEN [entry |-> ValidationEntry(config_name, "FAILED",
                                     <<"Unexpected error: " \o res.msg>>),
                       all_valid |-> FALSE]
                 ELSE IF res.value # <<>>
                 THEN [entry |-> ValidationEntry(config_name, "FAILED", res.value),
                       all_valid |-> FALSE]
                 ELSE [entry |-> ValidationEntry(config_name, "PASSED", <<>>),
                       all_valid |-> valid]

results_json(results) ==
    [timestamp |-> "2026-01-27T09:49:00-08:00",
     schema_version |-> "draft-07",
     total_configs |-> Len(config_files),
     passed |-> Count(results, "PASSED"),
     failed |-> Count(results, "FAILED"),
     results |-> results]

Rule60 == "============================================================"

ErrorBlock(result) ==
    IF result.status = "FAILED"
    THEN <<"File: " \o result.file \o "\n">>
         \o [i \in 1..Len(result.errors) |-> "  - " \o result.errors[i] \o "\n"]
         \o <<"\n">>
    ELSE <<>>

error_lines(results) ==
    <<"Account Config Validation Errors\n", Rule60 \o "\n\n">>
    \o Concat([i \in 1..Len(results) |-> ErrorBlock(results[i])])

File(content) == [present |-> TRUE, content |-> content]

\* Mutant of StartRun: the result lists survive from the previous run.
StartRunKeepsResults ==
    /\ mode = "batch"
    /\ pc \in {"idle", "exited"}
    /\ run < MaxRuns
    /\ run' = run + 1
    /\ pc' = IF script = "validate-configs.py" THEN "schema" ELSE "loop"
    /\ idx' = 0
    /\ schema' = NoSchema
    /\ all_valid' = TRUE
    /\ exit_code' = -1
    /\ files_read' = {}
    /\ written' = {}
    /\ edited' = FALSE
    /\ rerun' = (run >= 1 /\ ~edited)
    /\ UNCHANGED <<diskVars, script, mode, config_data, outcome, validation_results,
                   simulation_results>>

\* A new process starts: module-level state is initialised afresh.
StartRun ==
    /\ mode = "batch"
    /\ pc \in {"idle", "exited"}
    /\ run < MaxRuns
    /\ run' = run + 1
    /\ pc' = IF script = "validate-configs.py" THEN "schema" ELSE "loop"
    /\ idx' = 0
    /\ schema' = NoSchema
    /\ validation_results' = <<>>
    /\ all_valid' = TRUE
    /\ simulation_results' = <<>>
    /\ exit_code' = -1
    /\ files_read' = {}
    /\ written' = {}
    /\ edited' = FALSE
    /\ rerun' = (run >= 1 /\ ~edited)
    /\ UNCHANGED <<diskVars, script, mode, config_data, outcome>>

\* Between two runs somebody rewrites one configuration file.
EditFile ==
    /\ mode = "batch"
    /\ pc = "exited"
    /\ run < MaxRuns
    /\ ~edited
    /\ \E i \in 1..NumFiles, c \in FileContents :
          /\ c # config_docs[i]
          /\ config_docs' = [config_docs EXCEPT ![i] = c]
    /\ edited' = TRUE
    /\ UNCHANGED <<schema_file, validation_results_json, validation_errors_txt,
                   simulation_results_json, script, pc, run, rerun, idx, schema,
                   validation_results, all_valid, simulation_results, exit_code,
                   files_read, written, mode, config_data, outcome>>

\* Lines 8-13: the schema is read and parsed at module level, outside any try.
LoadSchema ==
    /\ mode = "batch"
    /\ pc = "schema"
    /\ schema_file # NoSchema
    /\ schema' = schema_file
    /\ pc' = "loop"
    /\ UNCHANGED <<diskVars, script, run, edited, rerun, idx, validation_results, all_valid,
                   simulation_results, exit_code, files_read, written, mode,
                   config_data, outcome>>

\* The read raises and nothing catches it: the interpreter exits with status 1.
SchemaAbort ==
    /\ mode = "batch"
    /\ pc = "schema"
    /\ schema_file = NoSchema
    /\ pc' = "exited"
    /\ exit_code' = 1
    /\ UNCHANGED <<diskVars, script, run, edited, rerun, idx, schema, validation_results,
                   all_valid, simulation_results, files_read, written, mode,
                   config_data, outcome>>

\* Mutant of ValidateFile: once all_valid is false every later file is
\* recorded as FAILED.
ValidateFileSticky ==
    /\ mode = "batch"
    /\ script = "validate-configs.py"
    /\ pc = "loop"
    /\ idx < Len(config_files)
    /\ LET step == ValidateOne(config_docs[idx + 1], config_files[idx + 1], schema, all_valid)
       IN  /\ validation_results' =
                Append(validation_results,
                       IF all_valid THEN step.entry
                       ELSE [step.entry EXCEPT !.status = "FAILED"])
           /\ all_valid' = step.all_valid
    /\ files_read' = files_read \cup {config_files[idx + 1]}
    /\ idx' = idx + 1
    /\ UNCHANGED <<diskVars, script, pc, run, edited, rerun, schema, simulation_results,
                   exit_code, written, mode, config_data, outcome>>

\* Mutant of ValidateFile: a file that does not pass ends the loop.
ValidateFileStops ==
    /\ mode = "batch"
    /\ script = "validate-configs.py"
    /\ pc = "loop"
    /\ idx < Len(config_files)
    /\ LET step == ValidateOne(config_docs[idx + 1], config_files[idx + 1], schema, all_valid)
       IN  /\ validation_results' = Append(validation_results, step.entry)
           /\ all_valid' = step.all_valid
           /\ idx' = IF step.entry.status = "PASSED" THEN idx + 1 ELSE Len(config_files)
    /\ files_read' = files_read \cup {config_files[idx + 1]}
    /\ UNCHANGED <<diskVars, script, pc, run, edited, rerun, schema, simulation_results,
                   exit_code, written, mode, config_data, outcome>>

ValidateFile ==
    /\ mode = "batch"
    /\ script = "validate-configs.py"
    /\ pc = "loop"
    /\ idx < Len(config_files)
    /\ LET step == ValidateOne(config_docs[idx + 1], config_files[idx + 1], schema, all_valid)
       IN  /\ validation_results' = Append(validation_results, step.entry)
           /\ all_valid' = step.all_valid
    /\ files_read' = files_read \cup {config_files[idx + 1]}
    /\ idx' = idx + 1
    /\ UNCHANGED <<diskVars, script, pc, run, edited, rerun, schema, simulation_results,
                   exit_code, written, mode, config_data, outcome>>

\* Lines 130-168: write validation-results.json, then exit 0, or write
\* validation-errors.txt and exit 1.
ValidateFinish ==
    /\ mode = "batch"
    /\ script = "validate-configs.py"
    /\ pc = "loop"
    /\ idx = Len(config_files)
    /\ validation_results_json' = File(results_json(validation_results))
    /\ IF all_valid
       THEN /\ exit_code' = 0
            /\ written' = written \cup {"validation-results.json"}
            /\ UNCHANGED validation_errors_txt
       ELSE /\ validation_errors_txt' = File(JoinStr(error_lines(validation_results)))
            /\ written' = written \cup {"validation-results.json", "validation-errors.txt"}
            /\ exit_code' = 1
    /\ pc' = "exited"
    /\ UNCHANGED <<config_docs, schema_file, simulation_results_json, script, run, edited, rerun,
                   idx, schema, validation_results, all_valid, simulation_results,
                   files_read, mode, config_data, outcome>>

\* ---- simulate-provisioning.py ----
ErrorEntry(config_name, msg) ==
    [config_id |-> "unknown", config_name |-> config_name, status |-> "ERROR",
     checks |-> <<>>, warnings |-> <<>>, errors |-> <<msg>>]

\* One iteration of the simulation loop: the entry appended to simulation_results.
SimulateOne(content, config_name) ==
    LET loaded == LoadJson(content)
    IN  IF loaded.raised
        THEN ErrorEntry(config_name, loaded.msg)
        ELSE LET res == simulate_config_provisioning(loaded.value, config_name)
             IN  IF res.raised THEN ErrorEntry(config_name, res.msg) ELSE res.value

\* datetime.now().isoformat(): a later run reads a later clock.
Now == "run-" \o ToString(run)

\* Mutant of output: "failed" counts the validator's status word.
OutputMiscount(results) ==
    [timestamp |-> Now,
     simulation_type |-> "dry-run",
     endpoint |-> "POST /internal/simulate-config",
     total_configs |-> Len(config_files),
     passed |-> Count(results, "PASS"),
     failed |-> Count(results, "FAILED"),
     errors |-> Count(results, "ERROR"),
     results |-> results]

output(results) ==
    [timestamp |-> Now,
     simulation_type |-> "dry-run",
     endpoint |-> "POST /internal/simulate-config",
     total_configs |-> Len(config_files),
     passed |-> Count(results, "PASS"),
     failed |-> Count(results, "FAIL"),
     errors |-> Count(results, "ERROR"),
     results |-> results]

SimulateFile ==
    /\ mode = "batch"
    /\ script = "simulate-provisioning.py"
    /\ pc = "loop"
    /\ idx < Len(config_files)
    /\ simulation_results' =
          Append(simulation_results, SimulateOne(config_docs[idx + 1], config_files[idx + 1]))
    /\ files_read' = files_read \cup {config_files[idx + 1]}
    /\ idx' = idx + 1
    /\ UNCHANGED <<diskVars, script, pc, run, edited, rerun, schema, validation_results,
                   all_valid, exit_code, written, mode, config_data, outcome>>

\* Lines 174-196: write simulation-results.json; the script ends, status 0.
SimulateFinish ==
    /\ mode = "batch"
    /\ script = "simulate-provisioning.py"
    /\ pc = "loop"
    /\ idx = Len(config_files)
    /\ simulation_results_json' = File(output(simulation_results))
    /\ written' = written \cup {"simulation-results.json"}
    /\ exit_code' = 0
    /\ pc' = "exited"
    /\ UNCHANGED <<config_docs, schema_file, validation_results_json,
                   validation_errors_txt, script, run, edited, rerun, idx, schema,
                   validation_results, all_valid, simulation_results, files_read,
                   mode, config_data, outcome>>

Init ==
    /\ mode = "batch"
    /\ script \in {"validate-configs.py", "simulate-provisioning.py"}
    /\ config_docs \in [1..NumFiles -> FileContents]
    /\ schema_file \in {NoSchema, DefaultSchema}
    /\ schema = NoSchema
    /\ config_data = EmptyDict
    /\ outcome = Pending
    /\ DiskInit
    /\ ProcessInit

Next ==
    \/ StartRun
    \/ EditFile
    \/ LoadSchema
    \/ SchemaAbort
    \/ ValidateFile
    \/ ValidateFinish
    \/ SimulateFile
    \/ SimulateFinish

Spec == Init /\ [][Next]_vars

(***************************************************************************)
(* Claims.                                                                 *)
(***************************************************************************)
Called == outcome # Pending

ReturnedValue == Called /\ ~outcome.raised

StatusesOf(checks) == {checks[i].status : i \in 1..Len(checks)}

\* C1: every result returned by simulate_config_provisioning has status
\* "FAIL" exactly when one of its check entries has status "FAIL", and
\* "PASS" otherwise, however many WARNING entries and warnings it holds.
C1_StatusIffFailCheck ==
    ReturnedValue =>
        /\ outcome.value.status \in {"PASS", "FAIL"}
        /\ outcome.value.status = "FAIL" <=> "FAIL" \in StatusesOf(outcome.value.checks)

C1_Witness ==
    /\ ReturnedValue
    /\ outcome.value.status = "PASS"
    /\ "WARNING" \in StatusesOf(outcome.value.checks)
    /\ Len(outcome.value.warnings) >= 3

ValidatorRan == mode = "batch" /\ script = "validate-configs.py" /\ run >= 1

SimulatorRan == mode = "batch" /\ script = "simulate-provisioning.py" /\ run >= 1

\* The files still hold what this run read from them.
FilesAsRead == pc \in {"loop", "exited"} /\ ~edited

LoadFails(i) == config_docs[i].kind # "json"

ErrorPrefixes == {"", "JSON parse error: ", "Unexpected error: "}

Embeds(text, msg) == \E prefix \in ErrorPrefixes : text = prefix \o msg

\* C2: in both loops the results list holds one entry per file processed so
\* far, in list order, and after the loop one per file of the list; a file
\* whose read or parse fails gets status FAILED (validator) or ERROR
\* (simulator) and an errors list of one string embedding the exception's
\* message, whichever files fail to load.
C2_LoadFailureEntry ==
    /\ (ValidatorRan /\ FilesAsRead) =>
          /\ Len(validation_results) = idx
          /\ (pc = "exited" /\ schema # NoSchema) => idx = Len(config_files)
          /\ \A i \in 1..Len(validation_results) :
                /\ validation_results[i].file = config_files[i]
                /\ LoadFails(i) =>
                      /\ validation_results[i].status = "FAILED"
                      /\ Len(validation_results[i].errors) = 1
                      /\ Embeds(validation_results[i].errors[1], config_docs[i].msg)
    /\ (SimulatorRan /\ FilesAsRead) =>
          /\ Len(simulation_results) = idx
          /\ pc = "exited" => idx = Len(config_files)
          /\ \A i \in 1..Len(simulation_results) :
                /\ simulation_results[i].config_name = config_files[i]
                /\ LoadFails(i) =>
                      /\ simulation_results[i].status = "ERROR"
                      /\ Len(simulation_results[i].errors) = 1
                      /\ Embeds(simulation_results[i].errors[1], config_docs[i].msg)

C2_Witness ==
    /\ ValidatorRan /\ FilesAsRead /\ pc = "exited"
    /\ config_docs[1] = BadJson
    /\ config_docs[2] = Unreadable
    /\ Len(validation_results) = Len(config_files)
    /\ validation_results[Len(config_files)].status = "PASSED"

\* C3: the schema validator exits 0 exactly when every configuration file
\* produced a PASSED result, and exits 1 when any file produced a FAILED one.
C3_ExitCode ==
    (ValidatorRan /\ pc = "exited") =>
        /\ exit_code \in {0, 1}
        /\ exit_code = 0 <=>
              /\ Len(validation_results) = Len(config_files)
              /\ \A i \in 1..Len(validation_results) : validation_results[i].status = "PASSED"
        /\ (\E i \in 1..Len(validation_results) : validation_results[i].status = "FAILED")
              => exit_code = 1

C3_Witness ==
    /\ ValidatorRan /\ pc = "exited" /\ ~edited
    /\ exit_code = 1
    /\ Len(validation_results) = Len(config_files)
    /\ \E i \in 1..NumFiles :
          /\ config_docs[i] = BadJson
          /\ \A j \in 1..NumFiles \ {i} : validation_results[j].status = "PASSED"

\* C4: with the schema document missing or unreadable the validator stops
\* before it reads a configuration file, appends a result or writes an
\* artifact; with the schema loaded, every file of the list is read and gets
\* a result entry whatever went wrong with the files before it.
C4_OnlySchemaIsFatal ==
    ValidatorRan =>
        /\ schema_file = NoSchema =>
              /\ files_read = {}
              /\ validation_results = <<>>
              /\ written = {}
              /\ pc = "exited" => exit_code = 1
        /\ (schema_file # NoSchema /\ pc = "exited") =>
              /\ files_read = Range(config_files)
              /\ Len(validation_results) = Len(config_files)
              /\ "validation-results.json" \in written

C4_Witness ==
    /\ ValidatorRan /\ pc = "exited" /\ ~edited
    /\ config_docs[1] = Json(IllTypedDoc)
    /\ config_docs[2] = Unreadable
    /\ config_docs[3] = Json(BadDoc)
    /\ Len(validation_results) = Len(config_files)
    /\ validation_results[1].errors = <<"Unexpected error: " \o TypeErrorLt>>
    /\ Len(validation_results[3].errors) > 1

\* C5 (as claimed): after a completed validator run, validation-errors.txt is
\* on disk only if a document failed in that run.
C5_ErrorsFileOnlyAfterFailure ==
    (ValidatorRan /\ pc = "exited" /\ schema # NoSchema) =>
        (validation_errors_txt.present =>
            \E i \in 1..Len(validation_results) : validation_results[i].status = "FAILED")

ExpectedErrors(cfg, sch) ==
    CheckRequired(cfg, sch) \o CheckVariant(cfg, sch)
    \o (IF BaseCapitalRaises(cfg) THEN <<>> ELSE CheckBaseCapital(cfg, sch))
    \o CheckChallengeDefinitions(cfg) \o CheckPayoutRules(cfg)

\* C6 (as claimed): validate_config never short-circuits: a document that
\* violates several rules at once gets back the error strings of all its
\* violations, concatenated in rule order.
C6_NoShortCircuit ==
    (Called /\ Len(ExpectedErrors(config_data, schema)) >= 2) =>
        /\ ~outcome.raised
        /\ outcome.value = ExpectedErrors(config_data, schema)

CountIn(seq, S) == Cardinality({i \in 1..Len(seq) : seq[i] \in S})

FieldNames == Range(AllFields) \cup {"currency"}

\* C7: the sequence validate_config returns holds exactly one "Missing
\* required field: <name>" for each name of the schema's required list that
\* the document lacks, and none for a name that is present or not required.
C7_MissingRequired ==
    ReturnedValue =>
        \A f \in FieldNames :
            CountIn(outcome.value, {"Missing required field: " \o f})
              = IF f \in Range(Get(schema, "required", <<>>)) /\ f \notin DOMAIN config_data
                THEN 1 ELSE 0

C7_Witness ==
    /\ ReturnedValue
    /\ Get(schema, "required", <<>>) = <<"baseCapital", "id">>
    /\ DOMAIN config_data = {"variant"}
    /\ Len(outcome.value) = 2

BelowMinimumStrings ==
    {"baseCapital " \o ToString(v) \o " below minimum " \o ToString(m) :
        v \in {500, 999, 1000, 25000}, m \in {1000, 25000}}

\* C8: in the sequence validate_config returns, a baseCapital below the
\* schema's minimum yields exactly one "below minimum" error; a baseCapital
\* equal to the minimum, or above it, or absent, yields none.
C8_StrictMinimum ==
    ReturnedValue =>
        LET min_capital == schema["properties"]["baseCapital"]["minimum"]
            n == CountIn(outcome.value, BelowMinimumStrings)
        IN  IF Has(config_data, "baseCapital") /\ config_data["baseCapital"][2] < min_capital
            THEN /\ n = 1
                 /\ CountIn(outcome.value,
                        {"baseCapital " \o ToString(config_data["baseCapital"][2])
                           \o " below minimum " \o ToString(min_capital)}) = 1
            ELSE n = 0

C8_Witness ==
    /\ ReturnedValue
    /\ Has(config_data, "baseCapital")
    /\ config_data["baseCapital"][2] = schema["properties"]["baseCapital"]["minimum"]
    /\ outcome.value # <<>>

Without(cfg, k) == Restrict(cfg, DOMAIN cfg \ {k})

StatusOfSimulation(cfg) == simulate_config_provisioning(cfg, "25k-eval-v1.json").value.status

ChecksNamed(result, name) ==
    {i \in 1..Len(result.checks) : result.checks[i].check = name}

ClaimedTotal(sp) ==
    SumSeq([i \in 1..Len(sp) |-> IF "payoutPercent" \in DOMAIN sp[i]
                                 THEN sp[i]["payoutPercent"] ELSE 0])

UnusualTotalStrings == {"Unusual payout total: " \o ToString(t) \o "%" : t \in 0..(100 * MaxPayouts)}

\* C9: with stagedPayouts non-empty the result holds one PayoutPercentageSum
\* entry, PASS when the payoutPercent values (a missing one counting 0) sum
\* to 100 and WARNING, with one warning string recording the total,
\* otherwise; the entry is never FAIL and the status is what it would be
\* without payoutRules; with stagedPayouts empty or absent there is no entry.
C9_PayoutSum ==
    ReturnedValue =>
        LET result == outcome.value
            sp == IF Has(config_data, "payoutRules")
                     /\ Has(config_data["payoutRules"], "stagedPayouts")
                  THEN config_data["payoutRules"]["stagedPayouts"] ELSE <<>>
            entries == ChecksNamed(result, "PayoutPercentageSum")
            total == ClaimedTotal(sp)
        IN  /\ result.status = StatusOfSimulation(Without(config_data, "payoutRules"))
            /\ \A i \in entries : result.checks[i].status # "FAIL"
            /\ IF sp = <<>>
               THEN entries = {} /\ CountIn(result.warnings, UnusualTotalStrings) = 0
               ELSE /\ Cardinality(entries) = 1
                    /\ IF total = 100
                       THEN /\ \A i \in entries : result.checks[i].status = "PASS"
                            /\ CountIn(result.warnings, UnusualTotalStrings) = 0
                       ELSE /\ \A i \in entries : result.checks[i].status = "WARNING"
                            /\ CountIn(result.warnings, UnusualTotalStrings) = 1
                            /\ CountIn(result.warnings,
                                  {"Unusual payout total: " \o ToString(total) \o "%"}) = 1

C9_Witness ==
    /\ ReturnedValue
    /\ Has(config_data, "payoutRules")
    /\ Has(config_data["payoutRules"], "stagedPayouts")
    /\ ClaimedTotal(config_data["payoutRules"]["stagedPayouts"]) = 101
    /\ outcome.value.status = "PASS"
    /\ "Unusual payout total: 101%" \in Range(outcome.value.warnings)

StructureWarning == "Straight-to-funded structure may be incorrect"

\* C10: for variant "straight-to-funded" the result holds the
\* StraightToFundedStructure entry, with status PASS, exactly when there is
\* one challenge definition and its durationDays is 0; in every other shape
\* there is no such entry and exactly one structure warning, and the status
\* is what it would be without the variant.
C10_StraightToFunded ==
    (ReturnedValue /\ Has(config_data, "variant")
       /\ config_data["variant"] = "straight-to-funded") =>
        LET result == outcome.value
            cds == IF Has(config_data, "challengeDefinitions")
                   THEN config_data["challengeDefinitions"] ELSE <<>>
            entries == ChecksNamed(result, "StraightToFundedStructure")
            wellFormed == /\ Len(cds) = 1
                          /\ "durationDays" \in DOMAIN cds[1]
                          /\ cds[1]["durationDays"] = 0
        IN  /\ result.status = StatusOfSimulation(Without(config_data, "variant"))
            /\ IF wellFormed
               THEN /\ Cardinality(entries) = 1
                    /\ \A i \in entries : result.checks[i].status = "PASS"
                    /\ CountIn(result.warnings, {StructureWarning}) = 0
               ELSE /\ entries = {}
                    /\ CountIn(result.warnings, {StructureWarning}) = 1
                    /\ Len(result.warnings) =
                          Len(simulate_config_provisioning(Without(config_data, "variant"),
                                  "25k-eval-v1.json").value.warnings) + 1

C10_Witness ==
    /\ ReturnedValue
    /\ Has(config_data, "variant")
    /\ config_data["variant"] = "straight-to-funded"
    /\ Has(config_data, "challengeDefinitions")
    /\ Len(config_data["challengeDefinitions"]) = 2
    /\ DurationIsZero(config_data["challengeDefinitions"][1])
    /\ outcome.value.status = "PASS"
    /\ StructureWarning \in Range(outcome.value.warnings)

\* C11: a document whose baseCapital is below 1000 and whose
\* challengeDefinitions is empty gets status FAIL and exactly the errors
\* "Insufficient base capital", "Missing challenge definitions", in that
\* order; the BaseCapitalValidation entry is PASS for a baseCapital of 1000
\* or more and FAIL only for one below 1000.
C11_CapitalFloor ==
    (ReturnedValue /\ Has(config_data, "baseCapital")) =>
        LET result == outcome.value
            capital == config_data["baseCapital"][2]
            entries == ChecksNamed(result, "BaseCapitalValidation")
        IN  /\ Cardinality(entries) = 1
            /\ \A i \in entries :
                  result.checks[i].status = IF capital < 1000 THEN "FAIL" ELSE "PASS"
            /\ (capital < 1000 /\ Has(config_data, "challengeDefinitions")
                  /\ config_data["challengeDefinitions"] = <<>>) =>
                  /\ result.status = "FAIL"
                  /\ result.errors =
                        <<"Insufficient base capital", "Missing challenge definitions">>

C11_Witness ==
    /\ ReturnedValue
    /\ Has(config_data, "baseCapital")
    /\ config_data["baseCapital"] = Num(500)
    /\ Has(config_data, "challengeDefinitions")
    /\ config_data["challengeDefinitions"] = <<>>
    /\ outcome.value.status = "FAIL"
    /\ Len(outcome.value.errors) = 2

FailChecks(result) == {i \in 1..Len(result.checks) : result.checks[i].status = "FAIL"}

\* C14: in every returned result the errors list has as many strings as
\* there are check entries with status FAIL, the status is PASS exactly
\* when errors is empty, and the checks list starts with the
\* BaseCapitalValidation entry followed by the ChallengeDefinitionsPresent
\* entry.
C14_ErrorsMatchFailChecks ==
    ReturnedValue =>
        LET result == outcome.value
        IN  /\ Len(result.errors) = Cardinality(FailChecks(result))
            /\ result.status = "PASS" <=> result.errors = <<>>
            /\ Len(result.checks) >= 2
            /\ result.checks[1].check = "BaseCapitalValidation"
            /\ result.checks[2].check = "ChallengeDefinitionsPresent"

C14_Witness ==
    /\ ReturnedValue
    /\ Len(outcome.value.errors) = 1
    /\ outcome.value.checks[2].status = "FAIL"
    /\ Len(outcome.value.checks) = 3
    /\ outcome.value.warnings # <<>>

\* C15: in simulation-results.json every result has status PASS, FAIL or
\* ERROR and passed + failed + errors = total_configs = the number of
\* results; in validation-results.json passed + failed = total_configs =
\* the number of results.
C15_CountsPartition ==
    /\ simulation_results_json.present =>
          LET summary == simulation_results_json.content
          IN  /\ \A i \in 1..Len(summary.results) :
                    summary.results[i].status \in {"PASS", "FAIL", "ERROR"}
              /\ summary.passed + summary.failed + summary.errors = summary.total_configs
              /\ summary.total_configs = Len(summary.results)
    /\ validation_results_json.present =>
          LET summary == validation_results_json.content
          IN  /\ summary.passed + summary.failed = summary.total_configs
              /\ summary.total_configs = Len(summary.results)

C15_Witness ==
    /\ simulation_results_json.present
    /\ simulation_results_json.content.passed >= 1
    /\ simulation_results_json.content.failed >= 1
    /\ simulation_results_json.content.errors >= 1

SansTimestamp(file) == [file.content EXCEPT !.timestamp = ""]

\* C12: a run of either script on the files the previous run read, left
\* unchanged, writes the results and counts the previous run wrote; only the
\* timestamp field may differ.
C12_RerunIdempotent ==
    [][(rerun /\ pc = "loop" /\ pc' = "exited") =>
          /\ script = "validate-configs.py" =>
                /\ validation_results_json.present
                /\ SansTimestamp(validation_results_json') =
                      SansTimestamp(validation_results_json)
                /\ validation_errors_txt' = validation_errors_txt
          /\ script = "simulate-provisioning.py" =>
                /\ simulation_results_json.present
                /\ SansTimestamp(simulation_results_json') =
                      SansTimestamp(simulation_results_json)]_vars

C12_Witness ==
    /\ SimulatorRan /\ rerun /\ pc = "exited"
    /\ simulation_results_json.present
    /\ simulation_results_json.content.timestamp = "run-2"
    /\ simulation_results_json.content.passed = 1
    /\ simulation_results_json.content.failed = 1
    /\ simulation_results_json.content.errors = Len(config_files) - 2

Unnamed(entry) ==
    IF "file" \in DOMAIN entry THEN [entry EXCEPT !.file = ""]
    ELSE [entry EXCEPT !.config_name = ""]

\* The entry of the file at position n against the entries before it: files
\* with equal content have entries equal up to the file name.
SameContentSameEntry(results, n) ==
    \A j \in 1..(n - 1) :
        config_docs[j] = config_docs[n] => Unnamed(results[j]) = Unnamed(results[n])

IsPrefix(s, t) == Len(s) <= Len(t) /\ SubSeq(t, 1, Len(s)) = s

\* C13: the entry a file gets depends on that file alone, not on its place
\* in the list nor on the other files; within a run the results lists only
\* grow by appending and all_valid only changes from true to false.
C13_ResultsIndependent ==
    [][run' = run =>
          /\ all_valid' => all_valid
          /\ IsPrefix(validation_results, validation_results')
          /\ IsPrefix(simulation_results, simulation_results')
          /\ validation_results' # validation_results =>
                LET n == Len(validation_results')
                IN  /\ n = Len(validation_results) + 1
                    /\ validation_results'[n]
                         = ValidateOne(config_docs[n], config_files[n], schema, TRUE).entry
                    /\ SameContentSameEntry(validation_results', n)
          /\ simulation_results' # simulation_results =>
                LET n == Len(simulation_results')
                IN  /\ n = Len(simulation_results) + 1
                    /\ simulation_results'[n] = SimulateOne(config_docs[n], config_files[n])
                    /\ SameContentSameEntry(simulation_results', n)]_vars

C13_Witness ==
    /\ ValidatorRan /\ pc = "exited" /\ ~edited
    /\ Len(validation_results) = Len(config_files)
    /\ config_docs[1] = Json(GoodDoc)
    /\ config_docs[2] = Json(BadDoc)
    /\ config_docs[3] = Json(GoodDoc)
    /\ validation_results[3].status = "PASSED"
    /\ ~all_valid

====
